---- MODULE Spec2Model ----
(***************************************************************************)
(* A model of the Easy Effects spectrum analyzer (src/src/spectrum.cpp).   *)
(*                                                                         *)
(* Two threads are modelled.  The realtime thread runs Spectrum::process   *)
(* and Spectrum::setup.  The main thread runs the GLib main loop: it       *)
(* dispatches the deferred FFT tasks queued by util::idle_add, the         *)
(* "changed::show" settings callback and the destructor, one at a time.    *)
(*                                                                         *)
(* Sample values are floats in the source.  The model draws stereo frames  *)
(* from a small set of even integers, so that the down-mix 0.5*(l+r) is an *)
(* exact integer (0 or 1 for the frames chosen).  The Hann window is kept   *)
(* in quarter units (4*w[n]), so real_input holds 4 times the value the    *)
(* source computes.                                                        *)
(*                                                                         *)
(* Spec is the analyzer.  SpecHost adds the host's latency query, SpecFair *)
(* adds fair scheduling, and SpecBox is the pitch box of                   *)
(* src/src/pitch_ui.cpp with its level-meter tasks.                        *)
(***************************************************************************)
EXTENDS Integers, Sequences, FiniteSets, TLC

\* n_bands: the length of in_mono, real_input and hann_window (8192 in the
\* program, scaled down here).
n_bands == 3

\* The number of deferred FFT tasks that may wait in the idle queue.
MaxPending == 1

\* The number of "changed::show" notifications that may wait for dispatch.
MaxChanges == 1

\* How many setup() calls in a row are followed.
MaxSetups == 2

\* The number of pitch boxes, and of level-meter tasks that may wait in the
\* idle queue.
MaxBoxes == 2

MaxLevelTasks == 1

\* The longest chunk handed to process while the host asks for the latency.
MaxHostChunk == 1

\* The longest chunk handed to process: one more than n_bands, so that the
\* oversize case n_new_samples > n_bands happens.
MaxChunk == n_bands + 1

\* size_t arithmetic wraps modulo 2^64 in the program.  TLC's integers are
\* 32 bits wide, so the model wraps at 2^30, far above every index it uses.
SizeWrap == 2^30

\* The stereo frames (left, right) offered to process.
Frames == {<<2, -2>>, <<0, 2>>}

\* The content of an output span before process writes it.
Stale == -1

\* What a read outside a buffer, or of released memory, yields.
Garbage == -7

Index == 0 .. (n_bands - 1)

\* What the host holds before it has asked for the latency.
NoLatency == -1

Boxes == 1 .. MaxBoxes

\* The two level signals of a plugin, and the meters they feed.
Meters == {"input_level", "output_level"}

\* The peak levels a plugin reports.
Levels == {1, 2}

\* What a level meter shows before its first update.
NoLevel == 0

VARIABLES
    in_mono,            \* Spectrum::in_mono
    real_input,         \* Spectrum::real_input
    complex_output,     \* contents of Spectrum::complex_output
    complex_alloc,      \* "allocated" | "freed": the fftwf_alloc_complex block
    plan,               \* "valid" | "destroyed": Spectrum::plan
    output,             \* Spectrum::output, the power vector
    power,              \* the payload of the last power.emit, or NoPower
    bypass,             \* PluginBase::bypass
    fftw_ready,         \* Spectrum::fftw_ready
    send_notifications, \* PluginBase::send_notifications
    connected_to_pw,    \* PluginBase::connected_to_pw
    show,               \* the "show" key of the settings store
    data_mutex,         \* owner of data_mutex: "free" | "rt" | "cb" | "dtor"
    pending,            \* deferred FFT tasks waiting in the idle queue
    changes,            \* "changed::show" notifications waiting for dispatch
    life,               \* "alive" | "destroying" | "destroyed"
    pc_rt,              \* position of the realtime thread
    pc_main,            \* position of the main thread
    left_in, right_in, left_out, right_out,  \* the spans of the current call
    rt_n,               \* loop index n of the windowing loop
    rt_enqueued,        \* whether the current call has queued a task
    mono_before,        \* in_mono as the current call found it
    oob,                \* an index outside a buffer has been accessed
    uaf,                \* a released FFTW resource has been used
    crashed,            \* the process has been killed by a memory fault
    releases,           \* how often each FFTW resource has been released
    setup_run,          \* setup() calls in a row since the last process call
    stream_tail,        \* the last n_bands samples of the ingested stream
    latency,            \* what get_latency_seconds last returned to the host
    box_state,          \* per pitch box set up so far: "set_up" | "disposed"
    box_serial,         \* per pitch box: Data::serial
    next_serial,        \* what get_new_filter_serial returns next
    ignore_filter_idle_add, \* the serial -> bool map of the ui helpers
    post_messages,      \* per pitch box: its plugin's post-messages flag
    connections,        \* per pitch box: the level signals still connected
    level_tasks,        \* the level-meter tasks waiting in the idle queue
    meters              \* per pitch box: what each level meter shows

vars == <<in_mono, real_input, complex_output, complex_alloc, plan, output,
          power, bypass, fftw_ready, send_notifications, connected_to_pw,
          show, data_mutex, pending, changes, life, pc_rt, pc_main,
          left_in, right_in, left_out, right_out, rt_n, rt_enqueued,
          mono_before, oob, uaf, crashed, releases, setup_run, stream_tail,
          latency, box_state, box_serial, next_serial,
          ignore_filter_idle_add, post_messages, connections, level_tasks,
          meters>>

rt_vars == <<pc_rt, left_in, right_in, left_out, right_out, rt_n,
             rt_enqueued, mono_before>>

fftw_vars == <<complex_output, complex_alloc, plan, output, power>>

flag_vars == <<bypass, fftw_ready, send_notifications, connected_to_pw, show>>

fault_vars == <<oob, uaf, crashed>>

\* History kept for the properties; no code reads it.
hist_vars == <<releases, setup_run, stream_tail>>

\* The pitch box of src/src/pitch_ui.cpp and the idle queue of its tasks.
box_vars == <<box_state, box_serial, next_serial, ignore_filter_idle_add,
              post_messages, connections, level_tasks, meters>>

\* Everything the spectrum analyzer's code reads or writes.
analyzer_vars == <<in_mono, real_input, fftw_vars, flag_vars, data_mutex,
                   pending, changes, life, pc_main, rt_vars, fault_vars,
                   hist_vars>>

----------------------------------------------------------------------------
\* Pure helpers

SpanLen(s) == Cardinality(DOMAIN s)

Zeros == [n \in Index |-> 0]

NoData == <<"none">>

NoPower == <<"none">>

\* 2*cos(2*pi*n/d), for the denominators d = n_bands - 1 at which it is an integer.
TwoCos(n, d) ==
    CASE d = 1 -> 2
      [] d = 2 -> IF n % 2 = 0 THEN 2 ELSE -2
      [] d = 3 -> IF n % 3 = 0 THEN 2 ELSE -1
      [] d = 4 -> <<2, 0, -2, 0>>[(n % 4) + 1]

\* hann_window[n] = 0.5 * (1 - cos(2*pi*n / (n_bands - 1))), times 4.
hann_window(n) == 2 - TwoCos(n, n_bands - 1)

\* The shift loop left out: in_mono keeps its old content.
ShiftLoop_NoShift(buf, n, n_new_samples) == [buf |-> buf, oob |-> FALSE]

\* The bound of the shift loop, n_bands - n_new_samples, as a size_t.
ShiftBound(n_new_samples) == (n_bands - n_new_samples) % SizeWrap

\* for (n = 0; n < n_bands - n_new_samples; n++) in_mono[n] = in_mono[n_new_samples + n];
\* run from iteration n on; it stops at the first access outside in_mono.
RECURSIVE ShiftLoop(_, _, _)
ShiftLoop(buf, n, n_new_samples) ==
    IF n >= ShiftBound(n_new_samples)
    THEN [buf |-> buf, oob |-> FALSE]
    ELSE IF (n_new_samples + n) \notin Index \/ n \notin Index
         THEN [buf |-> [i \in Index |-> Garbage], oob |-> TRUE]
         ELSE ShiftLoop([buf EXCEPT ![n] = buf[n_new_samples + n]], n + 1, n_new_samples)

\* 0.5F * (left_in[n] + right_in[n])
DownMix(l, r) == (l + r) \div 2

\* The new samples written at the front of in_mono instead of its end.
AppendLoop_AtFront(buf, n, l, r) ==
    [buf |-> [i \in Index |-> IF i < SpanLen(l) THEN DownMix(l[i], r[i]) ELSE buf[i]],
     oob |-> FALSE]

\* The new samples written from the end of in_mono backwards.
AppendIndex_Reversed(n, n_new_samples) == (n_bands - 1 - n) % SizeWrap

\* The index written by the append loop, n_bands - n_new_samples + n, as a size_t.
AppendIndex(n, n_new_samples) == (n_bands - n_new_samples + n) % SizeWrap

\* for (n = 0; n < n_new_samples; n++) in_mono[n_bands - n_new_samples + n] = 0.5F * (...);
RECURSIVE AppendLoop(_, _, _, _)
AppendLoop(buf, n, l, r) ==
    IF n >= SpanLen(l)
    THEN [buf |-> buf, oob |-> FALSE]
    ELSE IF AppendIndex(n, SpanLen(l)) \notin Index
         THEN [buf |-> [i \in Index |-> Garbage], oob |-> TRUE]
         ELSE AppendLoop([buf EXCEPT ![AppendIndex(n, SpanLen(l))] = DownMix(l[n], r[n])],
                         n + 1, l, r)

\* real_input[n] = in_mono[n] * hann_window[n]
Windowed(mono, n) == mono[n] * hann_window(n)

WindowAll(mono) == [n \in Index |-> Windowed(mono, n)]

\* A copy that leaves the destination untouched.
CopySpan_Nothing(src) == [k \in DOMAIN src |-> Stale]

\* std::copy(in.begin(), in.end(), out.begin())
CopySpan(src) == [k \in DOMAIN src |-> src[k]]

\* fftwf_execute(plan): the forward transform of the buffer the plan reads.
\* FFTW is a library; its result is kept symbolic, tagged with its input.
Dft(x) == <<"dft", x>>

\* output[i] = (re^2 + im^2) / output.size()^2 for i < n_bands/2 + 1, symbolic.
PowerOf(c) == <<"power", (n_bands \div 2) + 1, c>>

----------------------------------------------------------------------------
\* The state after construction

\* PluginBase::bypass before any settings change.
BypassDefault == FALSE

Init ==
    /\ in_mono = Zeros
    /\ real_input = Zeros
    /\ complex_output = NoData
    /\ complex_alloc = "allocated"
    /\ plan = "valid"
    /\ output = NoPower
    /\ power = NoPower
    /\ bypass = BypassDefault
    /\ fftw_ready = TRUE
    /\ send_notifications = FALSE
    /\ connected_to_pw = FALSE
    /\ show \in BOOLEAN
    /\ data_mutex = "free"
    /\ pending = 0
    /\ changes = 0
    /\ life = "alive"
    /\ pc_rt = "idle"
    /\ pc_main = "idle"
    /\ left_in = <<>>
    /\ right_in = <<>>
    /\ left_out = <<>>
    /\ right_out = <<>>
    /\ rt_n = 0
    /\ rt_enqueued = FALSE
    /\ mono_before = Zeros
    /\ oob = FALSE
    /\ uaf = FALSE
    /\ crashed = FALSE
    /\ releases = [complex_output |-> 0, plan |-> 0]
    /\ setup_run = 0
    /\ stream_tail = Zeros
    /\ latency = NoLatency
    /\ box_state = <<>>
    /\ box_serial = <<>>
    /\ next_serial = 1
    /\ ignore_filter_idle_add = <<>>
    /\ post_messages = <<>>
    /\ connections = <<>>
    /\ level_tasks = <<>>
    /\ meters = <<>>

RtAt(p) == ~crashed /\ pc_rt = p

MainAt(p) == ~crashed /\ pc_main = p

\* A lock that never waits.
MutexFree_NoWait == TRUE

\* std::scoped_lock<std::mutex> lock(data_mutex) can take the mutex.
MutexFree == data_mutex = "free"

----------------------------------------------------------------------------
\* The realtime thread

\* The audio server calls process with a chunk of M frames.
ProcessCall(chunk) ==
    /\ RtAt("idle")
    /\ connected_to_pw
    /\ pending < MaxPending
    /\ left_in' = [k \in DOMAIN chunk |-> chunk[k][1]]
    /\ right_in' = [k \in DOMAIN chunk |-> chunk[k][2]]
    /\ left_out' = [k \in DOMAIN chunk |-> Stale]
    /\ right_out' = [k \in DOMAIN chunk |-> Stale]
    /\ rt_enqueued' = FALSE
    /\ mono_before' = in_mono
    /\ rt_n' = 0
    /\ pc_rt' = "lock"
    /\ setup_run' = 0
    /\ UNCHANGED <<box_vars, latency, releases, stream_tail,
                   in_mono, real_input, fftw_vars, flag_vars, data_mutex,
                   pending, changes, life, pc_main, fault_vars>>

\* line 105: take data_mutex
ProcessLock ==
    /\ RtAt("lock")
    /\ MutexFree
    /\ data_mutex' = "rt"
    /\ pc_rt' = "copy"
    /\ UNCHANGED <<box_vars, latency, hist_vars,
                   in_mono, real_input, fftw_vars, flag_vars, pending, changes,
                   life, pc_main, left_in, right_in, left_out, right_out, rt_n,
                   rt_enqueued, mono_before, fault_vars>>

\* The early return with the bypass test left out.
ReturnsEarly_NoBypass == ~fftw_ready

\* The early return with the fftw_ready test left out.
ReturnsEarly_NoReady == bypass

\* line 110: if (bypass || !fftw_ready) return;
ReturnsEarly == bypass \/ ~fftw_ready

\* The stream's tail after one more sample: the oldest sample leaves.
Push(tail, sample) ==
    [n \in Index |-> IF n < n_bands - 1 THEN tail[n + 1] ELSE sample]

RECURSIVE PushAll(_, _, _, _)
\* The stream's tail after the down-mixed frames k, k+1, ... of a chunk,
\* taken one sample at a time.
PushAll(tail, k, left, right) ==
    IF k >= SpanLen(left)
    THEN tail
    ELSE PushAll(Push(tail, DownMix(left[k], right[k])), k + 1, left, right)

\* lines 107-112: copy the inputs to the outputs, then the early return.
\* A call that goes on ingests its chunk: stream_tail follows the stream.
ProcessCopy ==
    /\ RtAt("copy")
    /\ left_out' = CopySpan(left_in)
    /\ right_out' = CopySpan(right_in)
    /\ pc_rt' = IF ReturnsEarly THEN "return_early" ELSE "shift"
    /\ stream_tail' = IF ReturnsEarly
                      THEN stream_tail
                      ELSE PushAll(stream_tail, 0, left_in, right_in)
    /\ UNCHANGED <<box_vars, latency, releases, setup_run,
                   in_mono, real_input, fftw_vars, flag_vars, data_mutex,
                   pending, changes, life, pc_main, left_in, right_in, rt_n,
                   rt_enqueued, mono_before, fault_vars>>

\* lines 114-125: shift in_mono by n_new_samples
ProcessShift ==
    /\ RtAt("shift")
    /\ LET r == ShiftLoop(in_mono, 0, SpanLen(left_in))
       IN /\ in_mono' = r.buf
          /\ oob' = (oob \/ r.oob)
          /\ crashed' = r.oob
          /\ pc_rt' = IF r.oob THEN "shift" ELSE "append"
    /\ UNCHANGED <<box_vars, latency, hist_vars,
                   real_input, fftw_vars, flag_vars, data_mutex, pending,
                   changes, life, pc_main, left_in, right_in, left_out,
                   right_out, rt_n, rt_enqueued, mono_before, uaf>>

\* lines 127-130: add the new samples at the end
ProcessAppend ==
    /\ RtAt("append")
    /\ LET r == AppendLoop(in_mono, 0, left_in, right_in)
       IN /\ in_mono' = r.buf
          /\ oob' = (oob \/ r.oob)
          /\ crashed' = r.oob
          /\ pc_rt' = IF r.oob THEN "append" ELSE "window"
    /\ rt_n' = 0
    /\ UNCHANGED <<box_vars, latency, hist_vars,
                   real_input, fftw_vars, flag_vars, data_mutex, pending,
                   changes, life, pc_main, left_in, right_in, left_out,
                   right_out, rt_enqueued, mono_before, uaf>>

\* lines 132-135: one iteration of the windowing loop
ProcessWindow ==
    /\ RtAt("window")
    /\ rt_n < n_bands
    /\ real_input' = [real_input EXCEPT ![rt_n] = Windowed(in_mono, rt_n)]
    /\ rt_n' = rt_n + 1
    /\ pc_rt' = IF rt_n + 1 < n_bands THEN "window" ELSE "notify"
    /\ UNCHANGED <<box_vars, latency, hist_vars,
                   in_mono, fftw_vars, flag_vars, data_mutex, pending, changes,
                   life, pc_main, left_in, right_in, left_out, right_out,
                   rt_enqueued, mono_before, fault_vars>>

\* The task queued whatever send_notifications says.
Notifies_Always == TRUE

\* line 137: if (send_notifications)
Notifies == send_notifications

\* lines 137-155: queue the deferred FFT task
ProcessNotify ==
    /\ RtAt("notify")
    /\ pending' = IF Notifies THEN pending + 1 ELSE pending
    /\ rt_enqueued' = Notifies
    /\ pc_rt' = "return"
    /\ UNCHANGED <<box_vars, latency, hist_vars,
                   in_mono, real_input, fftw_vars, flag_vars, data_mutex,
                   changes, life, pc_main, left_in, right_in, left_out,
                   right_out, rt_n, mono_before, fault_vars>>

\* lines 111 and 156: leaving process releases the scoped lock; the spans
\* of the call go out of scope
ProcessReturn ==
    /\ (RtAt("return") \/ RtAt("return_early"))
    /\ data_mutex' = "free"
    /\ pc_rt' = "idle"
    /\ mono_before' = in_mono
    /\ left_in' = <<>>
    /\ right_in' = <<>>
    /\ left_out' = <<>>
    /\ right_out' = <<>>
    /\ rt_n' = 0
    /\ rt_enqueued' = FALSE
    /\ UNCHANGED <<box_vars, latency, hist_vars,
                   in_mono, real_input, fftw_vars, flag_vars, pending, changes,
                   life, pc_main, fault_vars>>

\* A fill that leaves the buffer as it is.
ZeroFill_Nothing(buf) == buf

\* lines 89-90: std::ranges::fill(buf, 0.0F)
ZeroFill(buf) == [n \in DOMAIN buf |-> 0]

\* Spectrum::setup, called between process calls when the graph is configured
Setup ==
    /\ RtAt("idle")
    /\ life = "alive"
    /\ setup_run < MaxSetups
    /\ in_mono' = ZeroFill(in_mono)
    /\ real_input' = ZeroFill(real_input)
    /\ mono_before' = in_mono'
    /\ setup_run' = setup_run + 1
    /\ stream_tail' = Zeros
    /\ UNCHANGED <<box_vars, latency, releases,
                   fftw_vars, flag_vars, data_mutex, pending, changes, life,
                   pc_rt, pc_main, left_in, right_in, left_out, right_out,
                   rt_n, rt_enqueued, fault_vars>>

----------------------------------------------------------------------------
\* The main thread

\* A task that runs the FFT whatever bypass says.
TaskAborts_Never == FALSE

\* line 139: the deferred task's if (bypass) return;
TaskAborts == bypass

\* lines 138-141: the main loop dispatches a deferred task
TaskBegin ==
    /\ MainAt("idle")
    /\ pending > 0
    /\ pending' = pending - 1
    /\ pc_main' = IF TaskAborts THEN "idle" ELSE "fft"
    /\ UNCHANGED <<box_vars, latency, hist_vars,
                   in_mono, real_input, fftw_vars, flag_vars, data_mutex,
                   changes, life, pc_rt, rt_vars, fault_vars>>

\* lines 143-153: execute the plan, compute the power vector, emit it.
\* A destroyed plan or a freed complex_output is undefined behaviour: the
\* process is killed, or the task goes on with garbage.
TaskRun ==
    /\ MainAt("fft")
    /\ pc_main' = "idle"
    /\ IF plan = "valid" /\ complex_alloc = "allocated"
       THEN /\ complex_output' = Dft(real_input)
            /\ output' = PowerOf(complex_output')
            /\ power' = output'
            /\ UNCHANGED <<uaf, crashed>>
       ELSE /\ uaf' = TRUE
            /\ crashed' \in BOOLEAN
            /\ complex_output' = Dft([n \in Index |-> Garbage])
            /\ output' = PowerOf(complex_output')
            /\ power' = IF crashed' THEN power ELSE output'
    /\ UNCHANGED <<box_vars, latency, hist_vars,
                   in_mono, real_input, complex_alloc, plan, flag_vars,
                   data_mutex, pending, changes, life, pc_rt, rt_vars, oob>>

\* The "show" key changes in the settings store; GSettings queues "changed::show".
ChangeShow ==
    /\ ~crashed
    /\ life = "alive"
    /\ changes < MaxChanges
    /\ show' = ~show
    /\ changes' = changes + 1
    /\ UNCHANGED <<box_vars, latency, hist_vars,
                   in_mono, real_input, fftw_vars, bypass, fftw_ready,
                   send_notifications, connected_to_pw, data_mutex, pending,
                   life, pc_rt, pc_main, rt_vars, fault_vars>>

\* line 60: the main loop dispatches the changed::show handler
CallbackBegin ==
    /\ MainAt("idle")
    /\ life = "alive"
    /\ changes > 0
    /\ changes' = changes - 1
    /\ pc_main' = "cb_lock"
    /\ UNCHANGED <<box_vars, latency, hist_vars,
                   in_mono, real_input, fftw_vars, flag_vars, data_mutex,
                   pending, life, pc_rt, rt_vars, fault_vars>>

\* line 63: take data_mutex
CallbackLock ==
    /\ MainAt("cb_lock")
    /\ MutexFree
    /\ data_mutex' = "cb"
    /\ pc_main' = "cb_write"
    /\ UNCHANGED <<box_vars, latency, hist_vars,
                   in_mono, real_input, fftw_vars, flag_vars, pending, changes,
                   life, pc_rt, rt_vars, fault_vars>>

\* line 65: g_settings_get_boolean(settings, key) == 0
BypassFor(value) == ~value

\* lines 65-66: write bypass, leave the handler
CallbackWrite ==
    /\ MainAt("cb_write")
    /\ bypass' = BypassFor(show)
    /\ data_mutex' = "free"
    /\ pc_main' = "idle"
    /\ UNCHANGED <<box_vars, latency, hist_vars,
                   in_mono, real_input, fftw_vars, fftw_ready,
                   send_notifications, connected_to_pw, show, pending, changes,
                   life, pc_rt, rt_vars, fault_vars>>

\* PluginBase::set_post_messages
SetPostMessages(b) ==
    /\ MainAt("idle")
    /\ life = "alive"
    /\ send_notifications # b
    /\ send_notifications' = b
    /\ UNCHANGED <<box_vars, latency, hist_vars,
                   in_mono, real_input, fftw_vars, bypass, fftw_ready,
                   connected_to_pw, show, data_mutex, pending, changes, life,
                   pc_rt, pc_main, rt_vars, fault_vars>>

\* PluginBase::connect_to_pw
ConnectToPw ==
    /\ MainAt("idle")
    /\ life = "alive"
    /\ ~connected_to_pw
    /\ connected_to_pw' = TRUE
    /\ UNCHANGED <<box_vars, latency, hist_vars,
                   in_mono, real_input, fftw_vars, bypass, fftw_ready,
                   send_notifications, show, data_mutex, pending, changes,
                   life, pc_rt, pc_main, rt_vars, fault_vars>>

\* A destructor that goes on without disconnecting from the audio server.
DestructorBegin_StaysConnected ==
    /\ MainAt("idle")
    /\ life = "alive"
    /\ life' = "destroying"
    /\ pc_main' = "dtor_lock"
    /\ UNCHANGED <<box_vars, latency, hist_vars, in_mono, real_input,
                   fftw_vars, flag_vars, data_mutex, pending, changes, pc_rt,
                   rt_vars, fault_vars>>

\* lines 71-73: if (connected_to_pw) disconnect_from_pw();
DestructorBegin ==
    /\ MainAt("idle")
    /\ life = "alive"
    /\ life' = "destroying"
    /\ connected_to_pw' = FALSE
    /\ pc_main' = "dtor_lock"
    /\ UNCHANGED <<box_vars, latency, hist_vars,
                   in_mono, real_input, fftw_vars, bypass, fftw_ready,
                   send_notifications, show, data_mutex, pending, changes,
                   pc_rt, rt_vars, fault_vars>>

\* line 75: take data_mutex
DestructorLock ==
    /\ MainAt("dtor_lock")
    /\ MutexFree
    /\ data_mutex' = "dtor"
    /\ pc_main' = "dtor_clear"
    /\ UNCHANGED <<box_vars, latency, hist_vars,
                   in_mono, real_input, fftw_vars, flag_vars, pending, changes,
                   life, pc_rt, rt_vars, fault_vars>>

\* A destructor that leaves fftw_ready set.
ReadyInTeardown_StillSet == TRUE

\* line 77: the value the destructor gives fftw_ready
ReadyInTeardown == FALSE

\* line 77: fftw_ready = false
DestructorClear ==
    /\ MainAt("dtor_clear")
    /\ fftw_ready' = ReadyInTeardown
    /\ pc_main' = "dtor_free"
    /\ UNCHANGED <<box_vars, latency, hist_vars,
                   in_mono, real_input, fftw_vars, bypass, send_notifications,
                   connected_to_pw, show, data_mutex, pending, changes, life,
                   pc_rt, rt_vars, fault_vars>>

\* A destructor that never frees complex_output.
HasComplexOutput_Never == FALSE

\* line 79: complex_output != nullptr.  fftwf_alloc_complex succeeded in the
\* constructor and nothing resets the pointer.
HasComplexOutput == complex_alloc \in {"allocated", "freed"}

\* lines 79-81: if (complex_output != nullptr) fftwf_free(complex_output)
DestructorFree ==
    /\ MainAt("dtor_free")
    /\ IF HasComplexOutput
       THEN /\ complex_alloc' = "freed"
            /\ releases' = [releases EXCEPT !.complex_output = @ + 1]
       ELSE UNCHANGED <<complex_alloc, releases>>
    /\ pc_main' = "dtor_plan"
    /\ UNCHANGED <<box_vars, latency, setup_run, stream_tail,
                   in_mono, real_input, complex_output, plan, output, power,
                   flag_vars, data_mutex, pending, changes, life, pc_rt,
                   rt_vars, fault_vars>>

\* lines 83-86: fftwf_destroy_plan(plan), then the scoped lock is released
DestructorPlan ==
    /\ MainAt("dtor_plan")
    /\ plan' = "destroyed"
    /\ releases' = [releases EXCEPT !.plan = @ + 1]
    /\ data_mutex' = "free"
    /\ life' = "destroyed"
    /\ pc_main' = "idle"
    /\ UNCHANGED <<box_vars, latency, setup_run, stream_tail,
                   in_mono, real_input, complex_output, complex_alloc, output,
                   power, flag_vars, pending, changes, pc_rt, rt_vars,
                   fault_vars>>

----------------------------------------------------------------------------

\* The chunks handed to process: every chunk of at most n_bands frames, and
\* for the oversize length one chunk per frame.  The samples of an oversize
\* chunk never reach in_mono: the call returns early or faults in its first
\* shift iteration.
Chunks ==
    UNION {[0 .. (m - 1) -> Frames] : m \in 0 .. n_bands}
        \cup {[k \in 0 .. (MaxChunk - 1) |-> f] : f \in Frames}

Next ==
    \/ \E chunk \in Chunks : ProcessCall(chunk)
    \/ ProcessLock
    \/ ProcessCopy
    \/ ProcessShift
    \/ ProcessAppend
    \/ ProcessWindow
    \/ ProcessNotify
    \/ ProcessReturn
    \/ Setup
    \/ TaskBegin
    \/ TaskRun
    \/ ChangeShow
    \/ CallbackBegin
    \/ CallbackLock
    \/ CallbackWrite
    \/ \E b \in BOOLEAN : SetPostMessages(b)
    \/ ConnectToPw
    \/ DestructorBegin
    \/ DestructorLock
    \/ DestructorClear
    \/ DestructorFree
    \/ DestructorPlan

Spec == Init /\ [][Next]_vars

----------------------------------------------------------------------------
\* The host asks for the latency

\* A latency of one analysis window.
get_latency_seconds_Window == n_bands

\* lines 158-160: return 0.0F;
get_latency_seconds == 0

\* The pipeline host calls Spectrum::get_latency_seconds, at any moment of
\* the analyzer's life, and keeps the answer.
GetLatency ==
    /\ ~crashed
    /\ life = "alive"
    /\ latency' = get_latency_seconds
    /\ UNCHANGED <<analyzer_vars, box_vars>>

\* The chunks handed to process while the host asks for the latency.
HostChunks == UNION {[0 .. (m - 1) -> Frames] : m \in 0 .. MaxHostChunk}

NextHost ==
    \/ GetLatency
    \/ \E chunk \in HostChunks : ProcessCall(chunk)
    \/ ProcessLock
    \/ ProcessCopy
    \/ ProcessShift
    \/ ProcessAppend
    \/ ProcessWindow
    \/ ProcessNotify
    \/ ProcessReturn
    \/ Setup
    \/ TaskBegin
    \/ TaskRun
    \/ ChangeShow
    \/ CallbackBegin
    \/ CallbackLock
    \/ CallbackWrite
    \/ \E b \in BOOLEAN : SetPostMessages(b)
    \/ ConnectToPw
    \/ DestructorBegin
    \/ DestructorLock
    \/ DestructorClear
    \/ DestructorFree
    \/ DestructorPlan

SpecHost == Init /\ [][NextHost]_vars

----------------------------------------------------------------------------
\* The pitch box (src/src/pitch_ui.cpp).  setup, dispose and the level-meter
\* tasks run on the main thread, one at a time; the plugin emits its level
\* signals from its own thread.

\* get_new_filter_serial(): a serial no box has been given before.
NewSerial == next_serial

\* The map with key set to value, added if it is new.
Put(map, key, value) ==
    [k \in DOMAIN map \cup {key} |-> IF k = key THEN value ELSE map[k]]

\* set_ignore_filter_idle_add(serial, value)
SetIgnore(map, serial, value) == Put(map, serial, value)

\* The boxes whose setup has run.
SetUpBoxes == DOMAIN box_state

\* A level-meter task that never looks at the ignore map.
TaskIgnored_Never(serial) == FALSE

\* lines 79 and 90: get_ignore_filter_idle_add(serial)
TaskIgnored(serial) == ignore_filter_idle_add[serial]

\* lines 62-97: ui::pitch_box::setup.  Boxes are numbered in the order of
\* their setup.
BoxSetup(b) ==
    /\ b \notin SetUpBoxes
    /\ \A c \in Boxes : c < b => c \in SetUpBoxes
    /\ box_state' = Put(box_state, b, "set_up")
    /\ box_serial' = Put(box_serial, b, NewSerial)
    /\ next_serial' = next_serial + 1
    /\ ignore_filter_idle_add' = SetIgnore(ignore_filter_idle_add, NewSerial, FALSE)
    /\ post_messages' = Put(post_messages, b, TRUE)
    /\ connections' = Put(connections, b, Meters)
    /\ meters' = Put(meters, b, [m \in Meters |-> NoLevel])
    /\ UNCHANGED <<level_tasks, latency, analyzer_vars>>

\* The plugin of box b emits input_level or output_level; the connected
\* handler (lines 77-78, 88-89) queues a task that holds the serial, the
\* meter and the level by value.
EmitLevel(b, m, level) ==
    /\ b \in SetUpBoxes
    /\ post_messages[b]
    /\ m \in connections[b]
    /\ Len(level_tasks) < MaxLevelTasks
    /\ level_tasks' = Append(level_tasks,
                             [serial |-> box_serial[b], box |-> b,
                              meter |-> m, level |-> level])
    /\ UNCHANGED <<box_state, box_serial, next_serial, ignore_filter_idle_add,
                   post_messages, connections, meters, latency, analyzer_vars>>

\* lines 78-86 and 89-96: the main loop runs the oldest level-meter task
LevelTask ==
    /\ level_tasks # <<>>
    /\ level_tasks' = Tail(level_tasks)
    /\ LET t == Head(level_tasks)
       IN meters' = IF TaskIgnored(t.serial)
                    THEN meters
                    ELSE [meters EXCEPT ![t.box][t.meter] = t.level]
    /\ UNCHANGED <<box_state, box_serial, next_serial, ignore_filter_idle_add,
                   post_messages, connections, latency, analyzer_vars>>

\* lines 116-139: ui::pitch_box::dispose
BoxDispose(b) ==
    /\ b \in SetUpBoxes
    /\ box_state[b] = "set_up"
    /\ post_messages' = [post_messages EXCEPT ![b] = FALSE]
    /\ ignore_filter_idle_add' = SetIgnore(ignore_filter_idle_add, box_serial[b], TRUE)
    /\ connections' = [connections EXCEPT ![b] = {}]
    /\ box_state' = [box_state EXCEPT ![b] = "disposed"]
    /\ UNCHANGED <<box_serial, next_serial, level_tasks, meters, latency,
                   analyzer_vars>>

NextBox ==
    \/ \E b \in Boxes : BoxSetup(b)
    \/ \E b \in Boxes, m \in Meters, level \in Levels : EmitLevel(b, m, level)
    \/ LevelTask
    \/ \E b \in Boxes : BoxDispose(b)

\* The spectrum analyzer takes no step here; its "show" key is fixed.
InitBox == Init /\ show

SpecBox == InitBox /\ [][NextBox]_vars

----------------------------------------------------------------------------
\* Properties of the analyzer

\* The realtime thread holds data_mutex.
RtInCritical ==
    pc_rt \in {"copy", "shift", "append", "window", "notify", "return", "return_early"}

\* The changed::show handler holds data_mutex.
CallbackInCritical == pc_main = "cb_write"

\* process is about to return.
RtReturning == pc_rt \in {"return", "return_early"}

\* The call has begun to shift in_mono and has not yet rewritten all of real_input.
RtMidWindow == pc_rt \in {"append", "window"}

n_new == SpanLen(left_in)

\* The last n_new entries of in_mono are the down-mix of the call's input.
TailIsDownMix ==
    \A k \in 0 .. (n_new - 1) :
        in_mono[n_bands - n_new + k] = DownMix(left_in[k], right_in[k])

\* The first n_bands - n_new entries of in_mono are what the call found at n_new on.
HeadIsShifted ==
    \A n \in 0 .. (n_bands - n_new - 1) : in_mono[n] = mono_before[n_new + n]

\* C1: transparency.  Whenever process is about to return, on either path,
\* left_out equals left_in and right_out equals right_in, element by element.
C1_Transparency ==
    RtReturning => (left_out = left_in /\ right_out = right_in)

\* C1 witness: a call that returns early because fftw_ready is false has copied
\* a chunk of two or more frames whose channels differ.
C1_Witness ==
    /\ pc_rt = "return_early"
    /\ ~fftw_ready
    /\ n_new >= 2
    /\ left_in # right_in
    /\ left_out = left_in

\* C2 (as claimed): a deferred task that runs once the destructor has begun
\* sees fftw_ready false and returns: it never reaches the execution of the
\* plan, and no released FFTW resource is ever used.
C2_TaskAfterTeardownReturns ==
    /\ (life # "alive" => pc_main # "fft")
    /\ ~uaf

\* C3 (as claimed): no deferred task executes the plan while a process call is
\* partway through shifting in_mono or rewriting real_input.
C3_TaskSeesCompletedWindow ==
    ~(pc_main = "fft" /\ RtMidWindow)

\* C4: a process call that finds bypass set goes straight to its early return,
\* and neither of its steps queues a task or emits the power signal.
C4_BypassQueuesNothing ==
    [][/\ (pc_rt = "copy" /\ bypass /\ pc_rt' # pc_rt)
            => (pc_rt' = "return_early" /\ pending' = pending /\ power' = power)
       /\ (pc_rt = "return_early" /\ pc_rt' # pc_rt)
            => (pc_rt' = "idle" /\ pending' = pending /\ power' = power)]_vars

\* C4 witness: a call returns early on bypass alone: the plan is ready and
\* notifications are on, so only bypass kept it from queueing a task.
C4_Witness ==
    /\ pc_rt = "return_early"
    /\ bypass
    /\ fftw_ready
    /\ send_notifications
    /\ n_new >= 1
    /\ pending = 0

\* C5 (as claimed): a chunk longer than n_bands never makes process access
\* in_mono outside [0, n_bands), and in_mono holds no value read from outside it.
C5_OversizeStaysInBounds ==
    /\ ~oob
    /\ \A n \in Index : in_mono[n] # Garbage

\* C6 (as claimed): whenever a process call of at most n_bands frames is about
\* to return, on either path, the last n_new entries of in_mono are the
\* down-mix of its input.
C6_RecencyEveryCall ==
    (RtReturning /\ n_new <= n_bands) => TailIsDownMix

\* C6 (amended): whenever a process call of at most n_bands frames that was
\* not cut short by bypass or by fftw_ready being false is about to return,
\* the last n_new entries of in_mono are the down-mix of its input.
C6_Recency ==
    (pc_rt = "return" /\ n_new <= n_bands) => TailIsDownMix

\* C6 witness: a full call of two frames that mix down to different values
\* is about to return.
C6_Witness ==
    /\ pc_rt = "return"
    /\ n_new = 2
    /\ DownMix(left_in[0], right_in[0]) # DownMix(left_in[1], right_in[1])
    /\ TailIsDownMix

\* C7: whenever a process call of at most n_bands frames that reached the
\* shift is about to return, the first n_bands - n_new entries of in_mono are
\* entries n_new .. n_bands - 1 of the buffer the call found, in order.
C7_Shift ==
    (pc_rt = "return" /\ n_new <= n_bands) => HeadIsShifted

\* C7 witness: a call of one frame is about to return and the buffer it found
\* held different values at indexes 1 and 2, so the shift is visible.
C7_Witness ==
    /\ pc_rt = "return"
    /\ n_new = 1
    /\ mono_before[1] # mono_before[2]
    /\ in_mono[0] = mono_before[1]
    /\ in_mono[1] = mono_before[2]

\* C8 (as claimed): from construction on, whenever no changed::show callback
\* is waiting or running, bypass is the negation of show.
C8_BypassTracksShow ==
    (life = "alive" /\ changes = 0 /\ pc_main \notin {"cb_lock", "cb_write"})
        => (bypass = ~show)

\* C9: the changed::show handler and process are never both inside their
\* data_mutex critical sections.
C9_NoTornBypass ==
    ~(RtInCritical /\ CallbackInCritical)

\* C9 witness: the handler waits for data_mutex while process holds it and
\* has not yet read bypass.
C9_Witness ==
    /\ pc_main = "cb_lock"
    /\ pc_rt = "copy"
    /\ data_mutex = "rt"

\* C10: when process reaches the notification test with send_notifications
\* false (so bypass is false and fftw_ready true), its outputs equal its
\* inputs, in_mono ends with the down-mix of the input, real_input is the
\* windowed in_mono, and the step queues no task and emits nothing.
C10_PostMessagesGate ==
    [][(pc_rt = "notify" /\ pc_rt' = "return" /\ ~send_notifications)
         => /\ ~bypass /\ fftw_ready
            /\ left_out = left_in /\ right_out = right_in
            /\ TailIsDownMix
            /\ HeadIsShifted
            /\ real_input = WindowAll(in_mono)
            /\ pending' = pending
            /\ ~rt_enqueued'
            /\ power' = power]_vars

\* C10 witness: a full call that updated in_mono and real_input is about to
\* return with notifications off and nothing queued.
C10_Witness ==
    /\ pc_rt = "return"
    /\ ~send_notifications
    /\ ~rt_enqueued
    /\ pending = 0
    /\ n_new >= 1
    /\ real_input # Zeros
    /\ real_input = WindowAll(in_mono)

\* C11: the destructor releases the complex output buffer and the FFTW plan
\* exactly once each: nothing is released while the analyzer is alive, no
\* resource is ever released twice, and once the destructor has completed
\* both have been released once.
C11_ReleasedExactlyOnce ==
    /\ releases.complex_output <= 1
    /\ releases.plan <= 1
    /\ life = "alive" =>
          /\ releases = [complex_output |-> 0, plan |-> 0]
          /\ complex_alloc = "allocated"
          /\ plan = "valid"
    /\ life = "destroyed" =>
          /\ releases = [complex_output |-> 1, plan |-> 1]
          /\ complex_alloc = "freed"
          /\ plan = "destroyed"

C11_Witness ==
    /\ life = "destroyed"
    /\ pc_main = "idle"
    /\ releases.complex_output = 1
    /\ releases.plan = 1

\* C12: setup() is idempotent.  Every setup() call leaves in_mono and
\* real_input all zeros of length n_bands and touches nothing else, and a
\* setup() call that directly follows another one changes neither buffer:
\* the state after two calls is the state after one.
C12_SetupIdempotent ==
    [][setup_run' = setup_run + 1 =>
          /\ in_mono' = Zeros
          /\ real_input' = Zeros
          /\ DOMAIN in_mono' = Index
          /\ DOMAIN real_input' = Index
          /\ setup_run >= 1 => (in_mono' = in_mono /\ real_input' = real_input)
          /\ UNCHANGED <<fftw_vars, flag_vars, data_mutex, pending, changes,
                         life, pc_rt, pc_main, fault_vars>>]_vars

C12_Witness ==
    /\ setup_run = 2
    /\ in_mono = Zeros
    /\ real_input = Zeros
    /\ output # NoPower
    /\ pc_rt = "idle"

\* C13: get_latency_seconds returns exactly 0 whatever the analyzer has done
\* before, and the call changes no analyzer state: every step that gives the
\* host a new latency gives it 0 and leaves the analyzer as it was.
C13_LatencyZero ==
    [][latency' # latency => (latency' = 0 /\ UNCHANGED analyzer_vars)]_vars

C13_Witness ==
    /\ latency = 0
    /\ in_mono # Zeros
    /\ output # NoPower
    /\ pc_rt = "window"

\* C14: once the callback for show=false has completed (bypass is set) and
\* for as long as show stays false, no deferred task is past its bypass test:
\* none executes the plan or emits power, including the tasks queued before
\* the change, and a process call that returns has its outputs equal to its
\* inputs.
C14_HiddenEmitsNothing ==
    (bypass /\ ~show) =>
        /\ pc_main # "fft"
        /\ RtReturning => (left_out = left_in /\ right_out = right_in)

C14_Witness ==
    /\ bypass
    /\ ~show
    /\ life = "alive"
    /\ pending >= 1
    /\ power # NoPower
    /\ pc_main = "idle"

\* The destructor's steps happen in the order of lines 71-83: the plan is
\* destroyed only after complex_output is freed, that only after fftw_ready
\* is cleared, that only under data_mutex, and the mutex is taken only after
\* the disconnect.
TeardownInOrder ==
    /\ plan = "destroyed" => complex_alloc = "freed"
    /\ complex_alloc = "freed" => ~fftw_ready
    /\ ~fftw_ready => (data_mutex = "dtor" \/ life = "destroyed")
    /\ (pc_main = "dtor_lock" \/ data_mutex = "dtor") =>
          (life = "destroying" /\ ~connected_to_pw)
    /\ life = "destroyed" => (plan = "destroyed" /\ ~connected_to_pw)

C16_SlidingWindow ==
    pc_rt \notin {"shift", "append"} => in_mono = stream_tail

C16_Witness ==
    /\ pc_rt = "return"
    /\ n_new = 2
    /\ mono_before # Zeros
    /\ in_mono[0] = 1
    /\ in_mono[n_bands - 1] = 1
    /\ in_mono = stream_tail

\* C17: a process call that finds bypass set or fftw_ready false at line 110
\* takes the early return, and from the copy to the return its steps leave
\* in_mono, real_input, the power vector and the queue of deferred tasks as
\* they were; the spans it leaves behind have the outputs equal to the inputs.
C17_BypassedIsNoOp ==
    [][/\ (pc_rt = "copy" /\ (bypass \/ ~fftw_ready) /\ pc_rt' # pc_rt) =>
             /\ pc_rt' = "return_early"
             /\ left_out' = left_in
             /\ right_out' = right_in
             /\ UNCHANGED <<in_mono, real_input, output, pending,
                            complex_output, stream_tail>>
       /\ (pc_rt = "return_early" /\ pc_rt' # pc_rt) =>
             /\ pc_rt' = "idle"
             /\ UNCHANGED <<in_mono, real_input, output, pending,
                            complex_output, stream_tail>>]_vars

C17_Witness ==
    /\ pc_rt = "return_early"
    /\ bypass
    /\ fftw_ready
    /\ n_new = n_bands
    /\ in_mono # Zeros
    /\ in_mono = mono_before
    /\ real_input # Zeros
    /\ output # NoPower
    /\ left_out = left_in

\* The plan and the complex output buffer are allocated and not released.
FftwResourcesLive == plan = "valid" /\ complex_alloc = "allocated"

RtStep ==
    \/ ProcessLock
    \/ ProcessCopy
    \/ ProcessShift
    \/ ProcessAppend
    \/ ProcessWindow
    \/ ProcessNotify
    \/ ProcessReturn

\* The steps of the settings callback and of the destructor once begun.
MainStep ==
    \/ CallbackLock
    \/ CallbackWrite
    \/ DestructorLock
    \/ DestructorClear
    \/ DestructorFree
    \/ DestructorPlan

MainInCall ==
    pc_main \in {"cb_lock", "cb_write", "dtor_lock", "dtor_clear", "dtor_free",
                 "dtor_plan"}

\* The owner of data_mutex is inside the critical section that took it, and
\* nobody else is: the mutex is released on every way out.
MutexHeldByOwner ==
    /\ data_mutex = "rt" <=> RtInCritical
    /\ data_mutex = "cb" <=> pc_main = "cb_write"
    /\ data_mutex = "dtor" <=> pc_main \in {"dtor_clear", "dtor_free", "dtor_plan"}

\* C19: data_mutex is held only inside the critical section that took it,
\* and every call of process, of the settings callback and of the destructor
\* that is in progress can take its next step, or waits at the lock for an
\* owner that can take its own: no call is stuck for ever.
C19_EveryCallCompletes ==
    /\ MutexHeldByOwner
    /\ pc_rt # "idle" =>
          \/ ENABLED RtStep
          \/ pc_rt = "lock" /\ data_mutex \in {"cb", "dtor"} /\ ENABLED MainStep
    /\ MainInCall =>
          \/ ENABLED MainStep
          \/ pc_main \in {"cb_lock", "dtor_lock"} /\ data_mutex = "rt" /\ ENABLED RtStep

\* Fair scheduling: a thread that can go on does, and a thread waiting at
\* the lock gets data_mutex if it is free again and again.
SpecFair ==
    /\ Spec
    /\ WF_vars(RtStep)
    /\ WF_vars(MainStep)
    /\ SF_vars(ProcessLock)
    /\ SF_vars(CallbackLock)
    /\ SF_vars(DestructorLock)

\* Under fair scheduling every call completes, unless the process is killed
\* by a memory fault.
CompletesUnlessKilled ==
    /\ (pc_rt # "idle") ~> (pc_rt = "idle" \/ crashed)
    /\ MainInCall ~> (~MainInCall \/ crashed)

\* The level-meter tasks in the queue q that belong to box b.
TasksFor(q, b) == Cardinality({i \in DOMAIN q : q[i].box = b})

\* C20: while a box is set up its serial is not ignored, and a level-meter
\* task that runs for it writes its level to its meter.  Once the box is
\* disposed its plugin posts no messages, its serial is ignored and its
\* signals are disconnected; from then on no step changes its meters (the
\* tasks queued before dispose return without updating) and no step queues
\* a new task for it.
C20_DisposeGuard ==
    /\ [](\A b \in SetUpBoxes :
             /\ box_state[b] = "set_up" =>
                   /\ ~ignore_filter_idle_add[box_serial[b]]
                   /\ post_messages[b]
                   /\ connections[b] = Meters
             /\ box_state[b] = "disposed" =>
                   /\ ignore_filter_idle_add[box_serial[b]]
                   /\ ~post_messages[b]
                   /\ connections[b] = {})
    /\ [][\A b \in SetUpBoxes :
             /\ box_state[b] = "disposed" =>
                   /\ meters'[b] = meters[b]
                   /\ TasksFor(level_tasks', b) <= TasksFor(level_tasks, b)
             /\ (/\ box_state[b] = "set_up"
                 /\ level_tasks # <<>>
                 /\ level_tasks' = Tail(level_tasks)
                 /\ Head(level_tasks).box = b) =>
                   meters'[b][Head(level_tasks).meter] = Head(level_tasks).level]_vars

C20_Witness ==
    \E b \in SetUpBoxes :
        /\ box_state[b] = "disposed"
        /\ TasksFor(level_tasks, b) >= 1
        /\ meters[b]["input_level"] # NoLevel
        /\ Head(level_tasks).level # meters[b][Head(level_tasks).meter]
====
